---------------------------- MODULE Spec2Model ----------------------------
(***************************************************************************)
(* Policy gate of the coinben trade server: RateLimiter and PolicyGate of  *)
(* server/gate.js, and the PolicyGate variant carried in server/trade.js   *)
(* (the one that answers an empty order with EMPTY_ORDER_PASS).            *)
(*                                                                         *)
(* JavaScript values are tagged records: [t |-> "number", v |-> 5],        *)
(* [t |-> "string", v |-> <<"b","t","c">>] (a string is the sequence of    *)
(* its characters), [t |-> "boolean", v |-> TRUE], [t |-> "undefined"],    *)
(* [t |-> "null"], [t |-> "NaN"], and [t |-> "object", key |-> value ...]  *)
(* for an object, which has exactly the keys it was written with.          *)
(***************************************************************************)
EXTENDS Integers, Sequences, FiniteSets, TLC

(***************************************************************************)
(* Bounds of the model.                                                    *)
(***************************************************************************)
\* wall-clock seconds the clock may reach after the construction second
MaxSec == 1
\* milliseconds the clock may advance between the Date.now() reads of one call
MaxDrift == 2
\* allow() calls made on a stand-alone limiter within one wall-clock second
MaxCalls == 6
\* HTTP requests the server receives
MaxReq == 2

(***************************************************************************)
(* Program constants.                                                      *)
(***************************************************************************)
\* Math.floor(Date.now() / 1000)
MsPerSec == 1000
\* RateLimiter default ceiling
DefaultRate == 5
\* expires_at = Date.now() + 3000, ttl_ms: 3000
TtlMs == 3000

(***************************************************************************)
(* JavaScript values and the coercions the gate relies on.                 *)
(***************************************************************************)
Undef == [t |-> "undefined"]
Null == [t |-> "null"]
NaN == [t |-> "NaN"]
Num(n) == [t |-> "number", v |-> n]
Bool(b) == [t |-> "boolean", v |-> b]
Str(s) == [t |-> "string", v |-> s]

\* ToBoolean: what `!!x`, `if (x)` and `x || y` test
Truthy(x) ==
  CASE x.t = "undefined" -> FALSE
    [] x.t = "null" -> FALSE
    [] x.t = "NaN" -> FALSE
    [] x.t = "boolean" -> x.v
    [] x.t = "number" -> x.v # 0
    [] x.t = "string" -> x.v # <<>>
    [] OTHER -> TRUE

\* a || b
JsOr(a, b) == IF Truthy(a) THEN a ELSE b

\* o.key on an object: undefined for a key the object does not have
Get(o, key) == IF key \in DOMAIN o THEN o[key] ELSE Undef

\* o?.key
OptGet(o, key) == IF o.t \in {"undefined", "null"} THEN Undef ELSE Get(o, key)

\* Object.keys(o)
Keys(o) == DOMAIN o \ {"t"}

Digits == <<"0", "1", "2", "3", "4", "5", "6", "7", "8", "9">>
WhiteSpace == {" "}
IsDigit(c) == \E i \in 1..10 : Digits[i] = c
DigitValue(c) == (CHOOSE i \in 1..10 : Digits[i] = c) - 1

RECURSIVE TrimLeft(_)
TrimLeft(s) == IF s # <<>> /\ Head(s) \in WhiteSpace THEN TrimLeft(Tail(s)) ELSE s

RECURSIVE TrimRight(_)
TrimRight(s) ==
  IF s # <<>> /\ s[Len(s)] \in WhiteSpace
  THEN TrimRight(SubSeq(s, 1, Len(s) - 1)) ELSE s

RECURSIVE DecimalValue(_)
DecimalValue(s) ==
  IF s = <<>> THEN 0
  ELSE 10 * DecimalValue(SubSeq(s, 1, Len(s) - 1)) + DigitValue(s[Len(s)])

\* StringToNumber on decimal integer literals with an optional sign
StringToNumber(s) ==
  LET body == TrimRight(TrimLeft(s))
      neg == body # <<>> /\ Head(body) = "-"
      digs == IF neg THEN Tail(body) ELSE body
  IN IF body = <<>> THEN Num(0)
     ELSE IF digs # <<>> /\ \A i \in 1..Len(digs) : IsDigit(digs[i])
          THEN Num(IF neg THEN 0 - DecimalValue(digs) ELSE DecimalValue(digs))
          ELSE NaN

\* Number(x)
ToNumber(x) ==
  CASE x.t = "undefined" -> NaN
    [] x.t = "null" -> Num(0)
    [] x.t = "NaN" -> NaN
    [] x.t = "boolean" -> Num(IF x.v THEN 1 ELSE 0)
    [] x.t = "number" -> x
    [] x.t = "string" -> StringToNumber(x.v)
    [] OTHER -> NaN

\* a ?? b
Nullish(a, b) == IF a.t \in {"undefined", "null"} THEN b ELSE a

\* a <= b on numbers: false as soon as one side is NaN
JsLE(a, b) == a.t = "number" /\ b.t = "number" /\ a.v <= b.v

\* a > b on numbers: false as soon as one side is NaN
JsGT(a, b) == a.t = "number" /\ b.t = "number" /\ a.v > b.v

RECURSIVE NatToString(_)
NatToString(n) ==
  IF n < 10 THEN <<Digits[n + 1]>>
  ELSE NatToString(n \div 10) \o <<Digits[(n % 10) + 1]>>

\* String(x), as a sequence of characters
JsString(x) ==
  CASE x.t = "string" -> x.v
    [] x.t = "number" ->
         IF x.v < 0 THEN <<"-">> \o NatToString(0 - x.v) ELSE NatToString(x.v)
    [] x.t = "boolean" ->
         IF x.v THEN <<"t", "r", "u", "e">> ELSE <<"f", "a", "l", "s", "e">>
    [] x.t = "undefined" -> <<"u", "n", "d", "e", "f", "i", "n", "e", "d">>
    [] x.t = "null" -> <<"n", "u", "l", "l">>
    [] x.t = "NaN" -> <<"N", "a", "N">>
    [] OTHER -> <<"[", "o", "b", "j", "e", "c", "t", "]">>

LowerCase ==
  <<"a", "b", "c", "d", "e", "f", "g", "h", "i", "j", "k", "l", "m",
    "n", "o", "p", "q", "r", "s", "t", "u", "v", "w", "x", "y", "z">>
UpperCase ==
  <<"A", "B", "C", "D", "E", "F", "G", "H", "I", "J", "K", "L", "M",
    "N", "O", "P", "Q", "R", "S", "T", "U", "V", "W", "X", "Y", "Z">>
\* the upper-case letter of each lower-case letter
UpperOf == [c \in {LowerCase[i] : i \in 1..26} |->
              UpperCase[CHOOSE i \in 1..26 : LowerCase[i] = c]]
UpperChar(c) == IF c \in DOMAIN UpperOf THEN UpperOf[c] ELSE c

\* s.toUpperCase()
toUpperCase(s) == [i \in 1..Len(s) |-> UpperChar(s[i])]

\* new Date(ms).toISOString(): the calendar second and the milliseconds field
toISOString(ms) == <<ms \div MsPerSec, ms % MsPerSec>>

(***************************************************************************)
(* Inputs: the configurations handed to the constructor and updateConfig,  *)
(* the orders handed to canExecute, the arguments of the halt switches.    *)
(***************************************************************************)
Object == [t |-> "object"]

\* {limits:{rate_per_sec:2, max_order_usdt:10}, guards:{}, kill_switch:false}
CfgScenario ==
  [t |-> "object",
   limits |-> [t |-> "object", rate_per_sec |-> Num(2), max_order_usdt |-> Num(10)],
   guards |-> Object,
   kill_switch |-> Bool(FALSE)]

\* {kill_switch:true}
CfgKill == [t |-> "object", kill_switch |-> Bool(TRUE)]

\* {limits:{rate_per_sec:"1"}, guards:{max_staleness_ms:1}}
CfgStale ==
  [t |-> "object",
   limits |-> [t |-> "object", rate_per_sec |-> Str(<<"1">>)],
   guards |-> [t |-> "object", max_staleness_ms |-> Num(1)]]

\* the configurations the server loads (trade.js builds the gate from a loaded
\* configuration object)
ConfigArgs == {CfgScenario, CfgKill, CfgStale}

SymLower == Str(<<"b", "t", "c">>)
SymUpper == Str(<<"B", "T", "C">>)
SymOther == Str(<<"E", "T", "H">>)
Buy == Str(<<"b", "u", "y">>)
Sell == Str(<<"s", "e", "l", "l">>)
Close == Str(<<"c", "l", "o", "s", "e">>)

\* canExecute() passes no argument (undefined), canExecute(null) passes null
OrderArgs ==
  { Undef, Null, Object,
    [t |-> "object", symbol |-> SymOther, side |-> Buy, notional |-> Num(5)],
    [t |-> "object", symbol |-> SymLower, side |-> Buy, quote |-> Str(<<"2", "0">>)],
    [t |-> "object", symbol |-> SymUpper, side |-> Sell, notional |-> Num(20),
     reduceOnly |-> Bool(TRUE)],
    [t |-> "object", symbol |-> SymLower, side |-> Sell, notional |-> Num(20),
     intent |-> Close],
    [t |-> "object", side |-> Sell, notional |-> Num(20), closeOnly |-> Bool(TRUE)] }

SymbolArgs == {Undef, SymLower, SymUpper}
FlagArgs == {Bool(TRUE), Bool(FALSE)}

\* the instants the wall clock is observed at, in milliseconds: the first
\* milliseconds of the construction second and the start of the later seconds
ClockValues == (0..MaxDrift) \cup {s * MsPerSec : s \in 1..MaxSec}

(***************************************************************************)
(* State.                                                                  *)
(***************************************************************************)
VARIABLES
  variant,        \* "gate": PolicyGate of gate.js; "trade": the one in trade.js
  config,         \* this.config
  version,        \* this.version
  symbolHalt,     \* this.symbolHalt, a Set: its members in insertion order
  globalHalt,     \* this.globalHalt
  safeMode,       \* this.safeMode
  rateLimiter,    \* this.rateLimiter: [maxPerSec, bucket, ts]
  lastSnapshotAt, \* this.lastSnapshotAt
  startedAt,      \* this.startedAt
  clock,          \* Date.now()
  calls,          \* history of a stand-alone limiter: the ceiling it was built
                  \* from and its allow() calls in second calls.sec
  admitted,       \* history: the evaluations the limiter has admitted in second
                  \* admitted.sec since the configuration was last replaced
  stamped,        \* history: the policy_version of the decisions made since the
                  \* configuration was last replaced
  last,           \* history: the latest step, its argument and its result
  requests        \* the HTTP requests of trade.js: for each its route, body,
                  \* position in the handler, decision and response

vars ==
  <<variant, config, version, symbolHalt, globalHalt, safeMode, rateLimiter,
    lastSnapshotAt, startedAt, clock, calls, admitted, stamped, last, requests>>

(***************************************************************************)
(* RateLimiter.                                                            *)
(***************************************************************************)
\* constructor(maxPerSec = 5)
RateLimiter(maxPerSec) ==
  LET arg == IF maxPerSec = Undef THEN Num(DefaultRate) ELSE maxPerSec
  IN [maxPerSec |-> JsOr(ToNumber(arg), Num(DefaultRate)).v, bucket |-> 0, ts |-> 0]

\* the window taken anew on every call: the count of the second is lost
RateLimiter_window_LostUpdate(rl, t) ==
  [rl EXCEPT !.ts = t \div MsPerSec, !.bucket = 0]

\* the window allow() works in when Date.now() reads t
RateLimiter_window(rl, t) ==
  LET now == t \div MsPerSec
  IN IF rl.ts # now THEN [rl EXCEPT !.ts = now, !.bucket = 0] ELSE rl

\* allow() with the ceiling test written `>`: one call too many is admitted
RateLimiter_allow_OffByOne(rl, t) ==
  LET w == RateLimiter_window(rl, t)
  IN IF w.bucket > w.maxPerSec
     THEN [ok |-> FALSE, rl |-> w]
     ELSE [ok |-> TRUE, rl |-> [w EXCEPT !.bucket = @ + 1]]

\* allow(): the value returned and the limiter afterwards
RateLimiter_allow(rl, t) ==
  LET w == RateLimiter_window(rl, t)
  IN IF w.bucket >= w.maxPerSec
     THEN [ok |-> FALSE, rl |-> w]
     ELSE [ok |-> TRUE, rl |-> [w EXCEPT !.bucket = @ + 1]]

(***************************************************************************)
(* PolicyGate.                                                             *)
(***************************************************************************)
\* `pg-${new Date().toISOString()}`
NewVersion(t) == <<"pg-", toISOString(t)>>

\* this.config = config || {}
StoredConfig(cfg) == JsOr(cfg, Object)

\* a limiter of the default ceiling, whatever the configuration says
GateLimiter_Default(cfg) == RateLimiter(Num(DefaultRate))

\* new RateLimiter(this.config?.limits?.rate_per_sec || 5)
GateLimiter(cfg) ==
  RateLimiter(JsOr(OptGet(OptGet(cfg, "limits"), "rate_per_sec"), Num(DefaultRate)))

\* _isCloseOnly without the intent === "close" signal
_isCloseOnly_NoIntent(order) ==
  \/ Truthy(Get(order, "reduceOnly"))
  \/ Get(order, "closeOnly") = Bool(TRUE)

\* _isCloseOnly(order)
_isCloseOnly(order) ==
  \/ Truthy(Get(order, "reduceOnly"))
  \/ Get(order, "closeOnly") = Bool(TRUE)
  \/ Get(order, "intent") = Close

\* allow(reason = "PASS")
allow(reason, t) ==
  [allow |-> TRUE, reason_code |-> reason, policy_version |-> version,
   expires_at |-> t + TtlMs]

\* deny stamping a version made on the spot instead of this.version
deny_FreshVersion(code, detail, t) ==
  [allow |-> FALSE, reason_code |-> code, reason_detail |-> detail,
   policy_version |-> <<"pg-", toISOString(t)>>, denied_at |-> t]

\* deny(code, detail)
deny(code, detail, t) ==
  [allow |-> FALSE, reason_code |-> code, reason_detail |-> detail,
   policy_version |-> version, denied_at |-> t]

\* reading a property of null or undefined throws
TypeError == [t |-> "TypeError"]

\* order.symbol.toUpperCase() in place of String(order.symbol || "").toUpperCase():
\* an order without a symbol throws as well
ReadThrows_SymbolRequired(order) ==
  order.t \in {"null", "undefined"} \/ "symbol" \notin DOMAIN order

ReadThrows(order) == order.t \in {"null", "undefined"}

\* String(order.symbol || "").toUpperCase()
SymbolOf(order) == toUpperCase(JsString(JsOr(Get(order, "symbol"), Str(<<>>))))

\* this.symbolHalt.has(sym)
Halted(sym) == \E i \in 1..Len(symbolHalt) : symbolHalt[i] = sym

\* Number(this.config?.guards?.max_staleness_ms || 0)
MaxStale == ToNumber(JsOr(OptGet(OptGet(config, "guards"), "max_staleness_ms"), Num(0)))

\* Number(this.config?.limits?.max_order_usdt || 0)
MaxOrder == ToNumber(JsOr(OptGet(OptGet(config, "limits"), "max_order_usdt"), Num(0)))

\* Number(order.notional || order.quote || 0)
Notional(order) ==
  ToNumber(JsOr(JsOr(Get(order, "notional"), Get(order, "quote")), Num(0)))

\* this.config?.kill_switch
KillSwitch == Truthy(OptGet(config, "kill_switch"))

\* the notional cap applied from the cap itself on: `>=` for `>`
AfterSafeMode_CapInclusive(order, snapAt, t) ==
  LET age == t - JsOr(Num(snapAt), Num(0)).v
      notional == Notional(order)
  IN IF JsGT(MaxStale, Num(0)) /\ JsGT(Num(age), MaxStale) /\ ~_isCloseOnly(order)
     THEN deny("DATA_STALE", <<"Snapshot stale: ms", age>>, t)
     ELSE IF /\ JsGT(MaxOrder, Num(0))
             /\ JsGT(notional, Num(0))
             /\ (JsGT(notional, MaxOrder) \/ notional = MaxOrder)
             /\ ~_isCloseOnly(order)
          THEN deny("MAX_ORDER", <<"Notional >", notional, MaxOrder>>, t)
          ELSE IF _isCloseOnly(order) THEN allow("CLOSE_ONLY", t)
               ELSE allow("PASS", t)

\* canExecute from the staleness guard on; snapAt is this.lastSnapshotAt as the
\* guard reads it, t the instant of its Date.now()
AfterSafeMode(order, snapAt, t) ==
  LET age == t - JsOr(Num(snapAt), Num(0)).v
      notional == Notional(order)
  IN IF JsGT(MaxStale, Num(0)) /\ JsGT(Num(age), MaxStale) /\ ~_isCloseOnly(order)
     THEN deny("DATA_STALE", <<"Snapshot stale: ms", age>>, t)
     ELSE IF /\ JsGT(MaxOrder, Num(0))
             /\ JsGT(notional, Num(0))
             /\ JsGT(notional, MaxOrder)
             /\ ~_isCloseOnly(order)
          THEN deny("MAX_ORDER", <<"Notional >", notional, MaxOrder>>, t)
          ELSE IF _isCloseOnly(order) THEN allow("CLOSE_ONLY", t)
               ELSE allow("PASS", t)

\* the kill switch without the close-only exemption
KillStage_NoCloseOnly(order, t) ==
  IF ReadThrows(order) THEN TypeError
  ELSE deny("KILL_SWITCH", <<"Global kill switch enabled">>, t)

\* canExecute under the kill switch
KillStage(order, t) ==
  IF ReadThrows(order) THEN TypeError
  ELSE IF _isCloseOnly(order) THEN allow("KILL_SWITCH_CLOSE_ONLY", t)
  ELSE deny("KILL_SWITCH", <<"Global kill switch enabled">>, t)

\* the safe-mode rule tried before the rate limit
AfterHalts_SafeModeFirst(order, snapAt, t) ==
  IF safeMode /\ ~_isCloseOnly(order)
  THEN [rl |-> rateLimiter,
        outcome |-> deny("SAFE_MODE", <<"Safe mode: close-only">>, t)]
  ELSE LET r == RateLimiter_allow(rateLimiter, t)
       IN [rl |-> r.rl,
           outcome |->
             IF ~r.ok THEN deny("RATE_LIMIT", <<"Too many requests per second">>, t)
             ELSE AfterSafeMode(order, snapAt, t)]

\* the rate limit waived, like the other rules, for a close-only order
AfterHalts_CloseOnlyExempt(order, snapAt, t) ==
  LET r == RateLimiter_allow(rateLimiter, t)
  IN [rl |-> r.rl,
      outcome |->
        IF ~r.ok /\ ~_isCloseOnly(order)
        THEN deny("RATE_LIMIT", <<"Too many requests per second">>, t)
        ELSE IF safeMode /\ ~_isCloseOnly(order)
             THEN deny("SAFE_MODE", <<"Safe mode: close-only">>, t)
             ELSE AfterSafeMode(order, snapAt, t)]

\* canExecute from the rate limit on; t is the instant of the Date.now() reads
\* made from here on.  Returns the outcome and the limiter afterwards.
AfterHalts(order, snapAt, t) ==
  LET r == RateLimiter_allow(rateLimiter, t)
  IN [rl |-> r.rl,
      outcome |->
        IF ~r.ok THEN deny("RATE_LIMIT", <<"Too many requests per second">>, t)
        ELSE IF safeMode /\ ~_isCloseOnly(order)
             THEN deny("SAFE_MODE", <<"Safe mode: close-only">>, t)
             ELSE AfterSafeMode(order, snapAt, t)]

\* whether canExecute gets as far as this.rateLimiter.allow()
ReachesLimiter(order) ==
  /\ ~(variant = "trade" /\ (~Truthy(order) \/ Keys(order) = {}))
  /\ ~KillSwitch
  /\ ~ReadThrows(order)
  /\ ~(globalHalt /\ ~_isCloseOnly(order))
  /\ ~(SymbolOf(order) # <<>> /\ Halted(SymbolOf(order)) /\ ~_isCloseOnly(order))

\* the pipeline with the limiter consulted under global halt as well: a
\* GLOBAL_HALT denial takes a slot of the second
Pipeline_HaltCounts(order, snapAt, t) ==
  IF variant = "trade" /\ (~Truthy(order) \/ Keys(order) = {})
  THEN [rl |-> rateLimiter, outcome |-> allow("EMPTY_ORDER_PASS", t)]
  ELSE IF KillSwitch
  THEN [rl |-> rateLimiter, outcome |-> KillStage(order, t)]
  ELSE IF globalHalt /\ ReadThrows(order)
  THEN [rl |-> rateLimiter, outcome |-> TypeError]
  ELSE IF globalHalt /\ ~_isCloseOnly(order)
  THEN [rl |-> RateLimiter_allow(rateLimiter, t).rl,
        outcome |-> deny("GLOBAL_HALT", <<"Trading globally halted">>, t)]
  ELSE IF ReadThrows(order)
  THEN [rl |-> rateLimiter, outcome |-> TypeError]
  ELSE IF SymbolOf(order) # <<>> /\ Halted(SymbolOf(order)) /\ ~_isCloseOnly(order)
  THEN [rl |-> rateLimiter,
        outcome |-> deny("SYMBOL_HALT", <<"Symbol halted", SymbolOf(order)>>, t)]
  ELSE AfterHalts(order, snapAt, t)

\* canExecute(order = {}) once this.lastSnapshotAt = Date.now() has stored
\* snapAt; t is the instant of the later Date.now() reads
Pipeline(order, snapAt, t) ==
  IF variant = "trade" /\ (~Truthy(order) \/ Keys(order) = {})
  THEN [rl |-> rateLimiter, outcome |-> allow("EMPTY_ORDER_PASS", t)]
  ELSE IF KillSwitch
  THEN [rl |-> rateLimiter, outcome |-> KillStage(order, t)]
  ELSE IF globalHalt /\ ReadThrows(order)
  THEN [rl |-> rateLimiter, outcome |-> TypeError]
  ELSE IF globalHalt /\ ~_isCloseOnly(order)
  THEN [rl |-> rateLimiter,
        outcome |-> deny("GLOBAL_HALT", <<"Trading globally halted">>, t)]
  ELSE IF ReadThrows(order)
  THEN [rl |-> rateLimiter, outcome |-> TypeError]
  ELSE IF SymbolOf(order) # <<>> /\ Halted(SymbolOf(order)) /\ ~_isCloseOnly(order)
  THEN [rl |-> rateLimiter,
        outcome |-> deny("SYMBOL_HALT", <<"Symbol halted", SymbolOf(order)>>, t)]
  ELSE AfterHalts(order, snapAt, t)

NoOutcome == [t |-> "none"]

\* no request has reached the server yet
NoRequests == [r \in 1..MaxReq |-> [pc |-> "none", called |-> FALSE]]

NoCalls == [ceiling |-> Undef, sec |-> 0 - 1, n |-> 0]
NoneAdmitted == [sec |-> 0 - 1, n |-> 0]

\* the calls counted once allow() has been called at instant t
Counted(t) ==
  IF calls.sec = t \div MsPerSec
  THEN [calls EXCEPT !.n = @ + 1]
  ELSE [calls EXCEPT !.sec = t \div MsPerSec, !.n = 1]

\* the arguments of a setSymbolHalt(sym, on) call
Arguments(sym, on) == [t |-> "arguments", sym |-> sym, on |-> on]

\* the record of a step that is no canExecute call
Step(op) ==
  [op |-> op, arg |-> Undef, outcome |-> NoOutcome, reached |-> FALSE]

\* constructor(config), at instant 0, for a configuration of the set cfgs
InitGate(cfgs) ==
  /\ variant \in {"gate", "trade"}
  /\ clock = 0
  /\ \E cfg \in cfgs :
       /\ config = StoredConfig(cfg)
       /\ rateLimiter = GateLimiter(StoredConfig(cfg))
  /\ last = Step("constructor")
  /\ version = NewVersion(0)
  /\ symbolHalt = <<>>
  /\ globalHalt = FALSE
  /\ safeMode = FALSE
  /\ lastSnapshotAt = 0
  /\ startedAt = 0
  /\ calls = NoCalls
  /\ admitted = NoneAdmitted
  /\ stamped = {}
  /\ requests = NoRequests

Init == InitGate(ConfigArgs)

\* the wall clock advances to instant t
TickTo(t) ==
  /\ t > clock
  /\ clock' = t
  /\ last' = Step("tick")
  /\ UNCHANGED <<variant, config, version, symbolHalt, globalHalt, safeMode,
                 rateLimiter, lastSnapshotAt, startedAt, calls, admitted, stamped,
                 requests>>

\* the wall clock advances
Tick == \E t \in ClockValues : TickTo(t)

\* the evaluations admitted once one that got to the limiter at instant t was
\* admitted by it (ok) or refused
Admitted(t, ok) ==
  LET now == IF admitted.sec = t \div MsPerSec THEN admitted
             ELSE [sec |-> t \div MsPerSec, n |-> 0]
  IN IF ok THEN [now EXCEPT !.n = @ + 1] ELSE now

\* canExecute refreshing this.lastSnapshotAt only when it allows the order
canExecute_StampOnAllow(arg, d) ==
  LET order == IF arg = Undef THEN Object ELSE arg
      res == Pipeline(order, clock, clock + d)
      reached == ReachesLimiter(order)
  IN /\ clock + d \in ClockValues
     /\ admitted' = IF reached
                    THEN Admitted(clock + d, res.outcome.reason_code # "RATE_LIMIT")
                    ELSE admitted
     /\ lastSnapshotAt' = IF "allow" \in DOMAIN res.outcome /\ res.outcome.allow
                          THEN clock ELSE lastSnapshotAt
     /\ rateLimiter' = res.rl
     /\ clock' = clock + d
     /\ last' = [op |-> "canExecute", arg |-> arg, outcome |-> res.outcome,
                 reached |-> reached]
     /\ stamped' = IF "policy_version" \in DOMAIN res.outcome
                   THEN stamped \cup {res.outcome.policy_version}
                   ELSE stamped
     /\ UNCHANGED <<variant, config, version, symbolHalt, globalHalt, safeMode,
                    startedAt, calls>>

\* async canExecute(order = {}); d is the time that passes between its first
\* Date.now() and its later ones.  The body has no await: the call runs to its
\* return without any other code of the process running in between.  What the
\* caller keeps of the call (requests) is the caller's to say.
canExecute(arg, d) ==
  LET order == IF arg = Undef THEN Object ELSE arg
      res == Pipeline(order, clock, clock + d)
      reached == ReachesLimiter(order)
  IN /\ clock + d \in ClockValues
     /\ admitted' = IF reached
                    THEN Admitted(clock + d, res.outcome.reason_code # "RATE_LIMIT")
                    ELSE admitted
     /\ lastSnapshotAt' = clock
     /\ rateLimiter' = res.rl
     /\ clock' = clock + d
     /\ last' = [op |-> "canExecute", arg |-> arg, outcome |-> res.outcome,
                 reached |-> reached]
     /\ stamped' = IF "policy_version" \in DOMAIN res.outcome
                   THEN stamped \cup {res.outcome.policy_version}
                   ELSE stamped
     /\ UNCHANGED <<variant, config, version, symbolHalt, globalHalt, safeMode,
                    startedAt, calls>>

updateConfig(newCfg) ==
  /\ config' = StoredConfig(newCfg)
  /\ version' = NewVersion(clock)
  /\ rateLimiter' = GateLimiter(StoredConfig(newCfg))
  /\ stamped' = {}
  /\ admitted' = NoneAdmitted
  /\ last' = Step("updateConfig")
  /\ UNCHANGED <<variant, symbolHalt, globalHalt, safeMode, lastSnapshotAt,
                 startedAt, clock, calls, requests>>

setGlobalHalt(on) ==
  /\ globalHalt' = Truthy(on)
  /\ last' = Step("setGlobalHalt")
  /\ UNCHANGED <<variant, config, version, symbolHalt, safeMode, rateLimiter,
                 lastSnapshotAt, startedAt, clock, calls, admitted, stamped, requests>>

\* Set.prototype.add
SetAdd(set, x) == IF \E i \in 1..Len(set) : set[i] = x THEN set ELSE Append(set, x)

\* Set.prototype.delete
SetDelete(set, x) == SelectSeq(set, LAMBDA y : y # x)

\* setSymbolHalt storing the symbol as it was given
setSymbolHalt_AsGiven(sym, on) ==
  LET S == JsString(JsOr(sym, Str(<<>>)))
  IN /\ symbolHalt' = IF S = <<>> THEN symbolHalt
                      ELSE IF Truthy(on) THEN SetAdd(symbolHalt, S)
                      ELSE SetDelete(symbolHalt, S)
     /\ last' = [Step("setSymbolHalt") EXCEPT !.arg = Arguments(sym, on)]
     /\ UNCHANGED <<variant, config, version, globalHalt, safeMode, rateLimiter,
                    lastSnapshotAt, startedAt, clock, calls, admitted, stamped,
                    requests>>

setSymbolHalt(sym, on) ==
  LET S == toUpperCase(JsString(JsOr(sym, Str(<<>>))))
  IN /\ symbolHalt' = IF S = <<>> THEN symbolHalt
                      ELSE IF Truthy(on) THEN SetAdd(symbolHalt, S)
                      ELSE SetDelete(symbolHalt, S)
     /\ last' = [Step("setSymbolHalt") EXCEPT !.arg = Arguments(sym, on)]
     /\ UNCHANGED <<variant, config, version, globalHalt, safeMode, rateLimiter,
                    lastSnapshotAt, startedAt, clock, calls, admitted, stamped, requests>>

setSafeMode(on) ==
  /\ safeMode' = Truthy(on)
  /\ last' = Step("setSafeMode")
  /\ UNCHANGED <<variant, config, version, symbolHalt, globalHalt, rateLimiter,
                 lastSnapshotAt, startedAt, clock, calls, admitted, stamped, requests>>

policySnapshot ==
  /\ last' = [Step("policySnapshot") EXCEPT !.outcome =
                [t |-> "snapshot", version |-> version, safeMode |-> safeMode,
                 globalHalt |-> globalHalt, haltedSymbols |-> symbolHalt,
                 limits |-> JsOr(OptGet(config, "limits"), Object),
                 guards |-> JsOr(OptGet(config, "guards"), Object),
                 ttl_ms |-> TtlMs, asof |-> clock]]
  /\ UNCHANGED <<variant, config, version, symbolHalt, globalHalt, safeMode,
                 rateLimiter, lastSnapshotAt, startedAt, clock, calls, admitted, stamped, requests>>

Next ==
  \/ Tick
  \/ \E arg \in OrderArgs, d \in 0..MaxDrift :
       canExecute(arg, d) /\ UNCHANGED requests
  \/ \E cfg \in ConfigArgs : updateConfig(cfg)
  \/ \E on \in FlagArgs : setGlobalHalt(on)
  \/ \E sym \in SymbolArgs, on \in FlagArgs : setSymbolHalt(sym, on)
  \/ \E on \in FlagArgs : setSafeMode(on)
  \/ policySnapshot

Spec == Init /\ [][Next]_vars

(***************************************************************************)
(* The gate under its halt switches, with the symbols handed to            *)
(* setSymbolHalt and carried by the orders in all their spellings (lower,  *)
(* upper and mixed case, blank, empty, missing).  The configuration is the *)
(* one the gate was built with; a call takes no time.                      *)
(***************************************************************************)
SymMixed == Str(<<"B", "t", "c">>)
SymBlank == Str(<<" ">>)

HaltSymbolArgs == {Undef, Null, Str(<<>>), SymBlank, SymLower, SymUpper, SymMixed}

HaltOrderArgs ==
  { [t |-> "object", symbol |-> SymLower, side |-> Buy, notional |-> Num(5)],
    [t |-> "object", symbol |-> SymMixed, side |-> Buy, notional |-> Num(5)],
    [t |-> "object", symbol |-> SymOther, side |-> Buy, notional |-> Num(5)],
    [t |-> "object", symbol |-> SymBlank, side |-> Buy, notional |-> Num(5)],
    [t |-> "object", symbol |-> SymUpper, side |-> Sell, notional |-> Num(5),
     reduceOnly |-> Bool(TRUE)] }

HaltConfigArgs == {CfgScenario, CfgKill}

InitHalt == InitGate(HaltConfigArgs)

NextHalt ==
  \/ Tick
  \/ \E arg \in HaltOrderArgs : canExecute(arg, 0) /\ UNCHANGED requests
  \/ \E on \in FlagArgs : setGlobalHalt(on)
  \/ \E sym \in HaltSymbolArgs, on \in FlagArgs : setSymbolHalt(sym, on)
  \/ \E on \in FlagArgs : setSafeMode(on)

SpecHalt == InitHalt /\ [][NextHalt]_vars

(***************************************************************************)
(* The gate under replacement of its configuration: ceilings that are      *)
(* positive, negative and absent, caps that are positive and zero, and     *)
(* orders whose notional is below, at and above the cap, zero, missing,    *)
(* not a number, or given as quote.  A call takes no time.                 *)
(***************************************************************************)
\* {limits:{rate_per_sec:1, max_order_usdt:0}}
CfgCapZero ==
  [t |-> "object",
   limits |-> [t |-> "object", rate_per_sec |-> Num(1), max_order_usdt |-> Num(0)]]

\* {limits:{rate_per_sec:-1, max_order_usdt:10}}
CfgNegative ==
  [t |-> "object",
   limits |-> [t |-> "object", rate_per_sec |-> Num(0 - 1), max_order_usdt |-> Num(10)]]

CapConfigArgs == {CfgScenario, CfgCapZero, CfgNegative, CfgKill}

CapOrderArgs ==
  { [t |-> "object", symbol |-> SymOther, side |-> Buy, notional |-> Num(10)],
    [t |-> "object", symbol |-> SymOther, side |-> Buy, notional |-> Num(11)],
    [t |-> "object", symbol |-> SymOther, side |-> Buy, notional |-> Num(0)],
    [t |-> "object", symbol |-> SymOther, side |-> Buy, notional |-> Str(<<"a">>)],
    [t |-> "object", symbol |-> SymOther, side |-> Buy],
    [t |-> "object", symbol |-> SymOther, side |-> Buy, quote |-> Str(<<"2", "0">>)],
    [t |-> "object", symbol |-> SymOther, side |-> Sell, notional |-> Num(20),
     reduceOnly |-> Bool(TRUE)] }

InitConfig == InitGate(CapConfigArgs)

NextConfig ==
  \/ Tick
  \/ \E arg \in CapOrderArgs : canExecute(arg, 0) /\ UNCHANGED requests
  \/ \E cfg \in CapConfigArgs : updateConfig(cfg)
  \/ \E on \in FlagArgs : setGlobalHalt(on)
  \/ \E on \in FlagArgs : setSymbolHalt(SymOther, on)
  \/ \E on \in FlagArgs : setSafeMode(on)

SpecConfig == InitConfig /\ [][NextConfig]_vars

(***************************************************************************)
(* The request handlers of trade.js, POST /mix/market-order and            *)
(* POST /spot/market-order, over the gate of gate.js built from the loaded *)
(* configuration.  A handler runs up to its next await without any other   *)
(* code running; at an await (of gate.canExecute, of bitgetPrivateCall)    *)
(* the handlers of other requests may run.  requests[r] holds, for a       *)
(* request in flight, its route, its body, the decision it was given and   *)
(* called: whether bitgetPrivateCall was issued for it; and for a request  *)
(* answered, called and the response.  The clock is observed at the start  *)
(* of each wall-clock second.                                              *)
(***************************************************************************)
\* {limits:{rate_per_sec:1, max_order_usdt:10}, dry_run:false}
CfgLive ==
  [t |-> "object",
   limits |-> [t |-> "object", rate_per_sec |-> Num(1), max_order_usdt |-> Num(10)],
   dry_run |-> Bool(FALSE)]

\* {limits:{rate_per_sec:1, max_order_usdt:10}, dry_run:true}
CfgDryRun == [CfgLive EXCEPT !.dry_run = Bool(TRUE)]

ServerConfigArgs == {CfgLive, CfgDryRun, CfgKill}

Routes == {"mix", "spot"}

\* req.body
BodyArgs ==
  { Undef,
    [t |-> "object", symbol |-> SymOther],
    [t |-> "object", symbol |-> SymOther, side |-> Buy, quantity |-> Num(0)],
    [t |-> "object", symbol |-> SymOther, side |-> Buy, quantity |-> Num(5)],
    [t |-> "object", symbol |-> SymOther, side |-> Buy, size |-> Num(5),
     dryRun |-> Bool(TRUE)],
    [t |-> "object", symbol |-> SymOther, side |-> Buy, quote |-> Str(<<"2", "0">>)],
    [t |-> "object", symbol |-> SymOther, side |-> Sell, quantity |-> Num(20),
     reduceOnly |-> Bool(TRUE)] }

\* const {symbol, side, ...} = req.body || {}
Fields(body) == JsOr(body, Object)

\* quantity ?? size ?? quote
NormalizedSize(body) ==
  Nullish(Nullish(Get(Fields(body), "quantity"), Get(Fields(body), "size")),
          Get(Fields(body), "quote"))

\* !symbol || !side
FieldsMissing(body) ==
  ~Truthy(Get(Fields(body), "symbol")) \/ ~Truthy(Get(Fields(body), "side"))

\* normalizedSize === undefined || normalizedSize === null || Number(normalizedSize) <= 0
SizeMissing(body) ==
  \/ NormalizedSize(body) \in {Undef, Null}
  \/ JsLE(ToNumber(NormalizedSize(body)), Num(0))

\* the order handed to gate.canExecute
OrderOf(route, body) ==
  IF route = "mix"
  THEN [t |-> "object", symbol |-> Get(Fields(body), "symbol"),
        side |-> Get(Fields(body), "side"), notional |-> NormalizedSize(body),
        reduceOnly |-> Get(Fields(body), "reduceOnly"),
        intent |-> Get(Fields(body), "intent")]
  ELSE [t |-> "object", symbol |-> Get(Fields(body), "symbol"),
        side |-> Get(Fields(body), "side"), notional |-> NormalizedSize(body)]

\* {ok: false, error: message}
Failure(message) == [ok |-> FALSE, error |-> message]

\* res.status(status).json(payload) for a request; called: whether
\* bitgetPrivateCall was issued for it
Answered(status, payload, called) ==
  [pc |-> "done", called |-> called, res |-> [status |-> status, payload |-> payload]]

\* the request is received and its handler runs up to `await gate.canExecute`
marketOrder(r, route, body) ==
  /\ requests[r].pc = "none"
  /\ \A q \in 1..(r - 1) : requests[q].pc # "none"
  /\ IF FieldsMissing(body)
     THEN /\ requests' = [requests EXCEPT ![r] =
                            Answered(400, Failure("symbol/side required"), FALSE)]
          /\ last' = Step("marketOrder")
          /\ UNCHANGED <<variant, config, version, symbolHalt, globalHalt, safeMode,
                         rateLimiter, lastSnapshotAt, startedAt, clock, calls,
                         admitted, stamped>>
     ELSE IF SizeMissing(body)
     THEN /\ requests' = [requests EXCEPT ![r] =
                            Answered(400, Failure("quantity/size/quote required (>0)"), FALSE)]
          /\ lastSnapshotAt' = IF route = "spot" THEN clock ELSE lastSnapshotAt
          /\ last' = Step("marketOrder")
          /\ UNCHANGED <<variant, config, version, symbolHalt, globalHalt, safeMode,
                         rateLimiter, startedAt, clock, calls, admitted, stamped>>
     ELSE /\ canExecute(OrderOf(route, body), 0)
          /\ requests' = [requests EXCEPT ![r] =
                            [pc |-> "decision", called |-> FALSE, route |-> route,
                             body |-> body, decision |-> last'.outcome]]

\* the handler after `await gate.canExecute` with the deny test left out
afterDecision_NoDenyTest(r) ==
  /\ requests[r].pc = "decision"
  /\ requests' = [requests EXCEPT ![r] =
       IF Truthy(Get(Fields(requests[r].body), "dryRun")) \/ Truthy(Get(config, "dry_run"))
       THEN Answered(200, [ok |-> TRUE, dryRun |-> TRUE,
                            gate_result |-> requests[r].decision.reason_code], FALSE)
       ELSE [requests[r] EXCEPT !.pc = "exchange", !.called = TRUE]]
  /\ last' = Step("afterDecision")
  /\ UNCHANGED <<variant, config, version, symbolHalt, globalHalt, safeMode,
                 rateLimiter, lastSnapshotAt, startedAt, clock, calls, admitted,
                 stamped>>

\* the handler after `await gate.canExecute`, up to `await bitgetPrivateCall`
afterDecision(r) ==
  /\ requests[r].pc = "decision"
  /\ requests' = [requests EXCEPT ![r] =
       IF ~requests[r].decision.allow
       THEN Answered(400, [ok |-> FALSE, decision |-> requests[r].decision], FALSE)
       ELSE IF \/ Truthy(Get(Fields(requests[r].body), "dryRun"))
               \/ Truthy(Get(config, "dry_run"))
       THEN Answered(200, [ok |-> TRUE, dryRun |-> TRUE,
                            gate_result |-> requests[r].decision.reason_code], FALSE)
       ELSE [requests[r] EXCEPT !.pc = "exchange", !.called = TRUE]]
  /\ last' = Step("afterDecision")
  /\ UNCHANGED <<variant, config, version, symbolHalt, globalHalt, safeMode,
                 rateLimiter, lastSnapshotAt, startedAt, clock, calls, admitted,
                 stamped>>

\* the handler after `await bitgetPrivateCall`: the exchange has answered
\* (ok) or the call has thrown
afterExchange(r, ok) ==
  /\ requests[r].pc = "exchange"
  /\ requests' = [requests EXCEPT ![r] =
       IF ok THEN Answered(200, [ok |-> TRUE, dryRun |-> FALSE], TRUE)
       ELSE Answered(500, Failure("Bitget HTTP"), TRUE)]
  /\ last' = Step("afterExchange")
  /\ UNCHANGED <<variant, config, version, symbolHalt, globalHalt, safeMode,
                 rateLimiter, lastSnapshotAt, startedAt, clock, calls, admitted,
                 stamped>>

\* const gate = new PolicyGate(config)
InitServer == InitGate(ServerConfigArgs) /\ variant = "gate"

NextServer ==
  \/ \E sec \in 1..MaxSec : TickTo(sec * MsPerSec)
  \/ \E r \in 1..MaxReq, route \in Routes, body \in BodyArgs :
       marketOrder(r, route, body)
  \/ \E r \in 1..MaxReq : afterDecision(r)
  \/ \E r \in 1..MaxReq, ok \in BOOLEAN : afterExchange(r, ok)

SpecServer == InitServer /\ [][NextServer]_vars

(***************************************************************************)
(* A RateLimiter on its own: new RateLimiter(maxPerSec) at instant 0, then *)
(* allow() calls as the wall clock advances.  The gate's fields keep the   *)
(* values of a gate built without a configuration.                         *)
(***************************************************************************)
CeilingArgs == {Undef, Num(0 - 1), Num(0), Num(1), Num(2), Num(3), Str(<<"2">>)}

InitLimiter ==
  /\ variant = "gate"
  /\ clock = 0
  /\ config = Object
  /\ \E n \in CeilingArgs :
       /\ rateLimiter = RateLimiter(n)
       /\ calls = [NoCalls EXCEPT !.ceiling = n]
  /\ last = Step("RateLimiter")
  /\ version = NewVersion(0)
  /\ symbolHalt = <<>>
  /\ globalHalt = FALSE
  /\ safeMode = FALSE
  /\ lastSnapshotAt = 0
  /\ startedAt = 0
  /\ admitted = NoneAdmitted
  /\ stamped = {}
  /\ requests = NoRequests

\* rateLimiter.allow()
LimiterAllow ==
  LET r == RateLimiter_allow(rateLimiter, clock)
  IN /\ Counted(clock).n <= MaxCalls
     /\ rateLimiter' = r.rl
     /\ calls' = Counted(clock)
     /\ last' = [Step("allow") EXCEPT !.outcome = Bool(r.ok)]
     /\ UNCHANGED <<variant, config, version, symbolHalt, globalHalt, safeMode,
                    lastSnapshotAt, startedAt, clock, admitted, stamped, requests>>

NextLimiter == Tick \/ LimiterAllow

SpecLimiter == InitLimiter /\ [][NextLimiter]_vars

(***************************************************************************)
(* Vocabulary of the properties.                                           *)
(***************************************************************************)
ReasonCodes ==
  {"KILL_SWITCH_CLOSE_ONLY", "KILL_SWITCH", "GLOBAL_HALT", "SYMBOL_HALT",
   "RATE_LIMIT", "SAFE_MODE", "DATA_STALE", "MAX_ORDER", "CLOSE_ONLY", "PASS",
   "EMPTY_ORDER_PASS"}

\* the deny rules, in the order the pipeline is to try them
RuleOrder == <<"GLOBAL_HALT", "SYMBOL_HALT", "RATE_LIMIT", "SAFE_MODE", "MAX_ORDER">>

IsDecision(x) == "reason_code" \in DOMAIN x /\ "allow" \in DOMAIN x
Decided(x, isAllow, code) == IsDecision(x) /\ x.allow = isAllow /\ x.reason_code = code

\* an order record: an object, with or without fields
IsRecord(o) == o.t = "object"

\* reduceOnly truthy, closeOnly === true, or intent === "close"
CloseOnlyOrder(o) ==
  \/ ("reduceOnly" \in DOMAIN o /\ o.reduceOnly \notin {Undef, Null, NaN, Bool(FALSE), Num(0), Str(<<>>)})
  \/ ("closeOnly" \in DOMAIN o /\ o.closeOnly = Bool(TRUE))
  \/ ("intent" \in DOMAIN o /\ o.intent = Str(<<"c", "l", "o", "s", "e">>))

\* the limiter rl has admitted its ceiling of calls in the wall second of instant t
Exhausted(rl, t) == rl.ts = t \div MsPerSec /\ rl.bucket >= rl.maxPerSec

\* the order names a symbol that is halted, letter case apart
SymbolHalted(o) ==
  /\ "symbol" \in DOMAIN o
  /\ o.symbol.t = "string"
  /\ \E i \in 1..Len(symbolHalt) : symbolHalt[i] = toUpperCase(o.symbol.v)

\* a positive notional above a positive cap
OverCap(o) == JsGT(MaxOrder, Num(0)) /\ JsGT(Notional(o), Num(0)) /\ JsGT(Notional(o), MaxOrder)

\* the deny rules whose condition holds for order o when the limiter is read at t
Holds(o, t) ==
  [i \in 1..5 |->
     CASE i = 1 -> globalHalt
       [] i = 2 -> SymbolHalted(o)
       [] i = 3 -> Exhausted(rateLimiter, t)
       [] i = 4 -> safeMode
       [] i = 5 -> OverCap(o)]

\* the latest step was a canExecute call
Called == last.op = "canExecute"

(***************************************************************************)
(* C1.  gate.js: with the kill switch off, a non-close-only order for      *)
(* which two or more of the deny rules GLOBAL_HALT, SYMBOL_HALT,           *)
(* RATE_LIMIT, SAFE_MODE, MAX_ORDER hold at once is denied with the reason *)
(* of the earliest of them.  The conditions are those of the state the     *)
(* call starts in; the limiter is read at the instant the call ends at.    *)
(***************************************************************************)
C1_FirstMatch ==
  [][ (/\ last'.op = "canExecute"
       /\ variant = "gate"
       /\ ~KillSwitch
       /\ IsRecord(last'.arg)
       /\ ~CloseOnlyOrder(last'.arg)
       /\ Cardinality({i \in 1..5 : Holds(last'.arg, clock')[i]}) >= 2)
      => LET h == Holds(last'.arg, clock')
             first == CHOOSE i \in 1..5 : h[i] /\ \A j \in 1..(i - 1) : ~h[j]
         IN Decided(last'.outcome, FALSE, RuleOrder[first]) ]_vars

\* a call denied RATE_LIMIT although safe mode is on and the notional is over the cap
C1_Witness ==
  /\ Called /\ variant = "gate" /\ ~KillSwitch
  /\ IsRecord(last.arg) /\ ~CloseOnlyOrder(last.arg)
  /\ ~globalHalt /\ ~SymbolHalted(last.arg) /\ safeMode /\ OverCap(last.arg)
  /\ Decided(last.outcome, FALSE, "RATE_LIMIT")

(***************************************************************************)
(* C2.  As claimed: with the kill switch on, every order record that is    *)
(* not close-only is denied KILL_SWITCH and every close-only one is        *)
(* allowed KILL_SWITCH_CLOSE_ONLY.                                         *)
(***************************************************************************)
C2_KillSwitchEveryOrder ==
  (Called /\ KillSwitch /\ IsRecord(last.arg))
    => IF CloseOnlyOrder(last.arg)
       THEN Decided(last.outcome, TRUE, "KILL_SWITCH_CLOSE_ONLY")
       ELSE Decided(last.outcome, FALSE, "KILL_SWITCH")

(***************************************************************************)
(* C2, amended.  With the kill switch on, every order record that has at   *)
(* least one field is denied KILL_SWITCH when it is not close-only and     *)
(* allowed KILL_SWITCH_CLOSE_ONLY when it is, whatever the halts, safe     *)
(* mode, the cap and the limiter are.                                      *)
(***************************************************************************)
C2_KillSwitchNonEmpty ==
  (Called /\ KillSwitch /\ IsRecord(last.arg) /\ DOMAIN last.arg # {"t"})
    => IF CloseOnlyOrder(last.arg)
       THEN Decided(last.outcome, TRUE, "KILL_SWITCH_CLOSE_ONLY")
       ELSE Decided(last.outcome, FALSE, "KILL_SWITCH")

\* KILL_SWITCH although global halt, safe mode and a symbol halt are all on
C2_Witness ==
  /\ Called /\ KillSwitch /\ globalHalt /\ safeMode /\ SymbolHalted(last.arg)
  /\ ~CloseOnlyOrder(last.arg)
  /\ Decided(last.outcome, FALSE, "KILL_SWITCH")

(***************************************************************************)
(* C3.  A close-only order is never answered GLOBAL_HALT, SYMBOL_HALT,     *)
(* SAFE_MODE, DATA_STALE or MAX_ORDER.                                     *)
(***************************************************************************)
C3_CloseOnlyBypass ==
  (Called /\ IsRecord(last.arg) /\ CloseOnlyOrder(last.arg))
    => /\ IsDecision(last.outcome)
       /\ last.outcome.reason_code \notin
            {"GLOBAL_HALT", "SYMBOL_HALT", "SAFE_MODE", "DATA_STALE", "MAX_ORDER"}

\* a close-only order let through global halt, symbol halt, safe mode and the cap
C3_Witness ==
  /\ Called /\ IsRecord(last.arg) /\ CloseOnlyOrder(last.arg)
  /\ ~KillSwitch /\ globalHalt /\ safeMode /\ SymbolHalted(last.arg) /\ OverCap(last.arg)
  /\ Decided(last.outcome, TRUE, "CLOSE_ONLY")

(***************************************************************************)
(* C4.  A limiter with ceiling N >= 1 answers true to an allow() call      *)
(* exactly when it is among the first N calls made in its wall-clock       *)
(* second; so the first call of a new second is answered true.             *)
(***************************************************************************)
C4_RateBoundary ==
  (last.op = "allow" /\ rateLimiter.maxPerSec >= 1)
    => /\ calls.sec = clock \div MsPerSec
       /\ (last.outcome = Bool(TRUE)) <=> (calls.n <= rateLimiter.maxPerSec)

\* in a later second: the call after the ceiling, refused
C4_Witness ==
  /\ last.op = "allow" /\ rateLimiter.maxPerSec >= 1
  /\ clock >= MsPerSec
  /\ calls.n = rateLimiter.maxPerSec + 1
  /\ last.outcome = Bool(FALSE)

(***************************************************************************)
(* C5.  With the kill switch off, a close-only order evaluated when the    *)
(* limiter is at its ceiling for the current second is denied RATE_LIMIT,  *)
(* whatever global halt, the symbol halts and safe mode are.               *)
(***************************************************************************)
C5_RateLimitNotBypassed ==
  [][ (/\ last'.op = "canExecute"
       /\ ~KillSwitch
       /\ IsRecord(last'.arg)
       /\ CloseOnlyOrder(last'.arg)
       /\ Exhausted(rateLimiter, clock'))
      => Decided(last'.outcome, FALSE, "RATE_LIMIT") ]_vars

\* a close-only order denied RATE_LIMIT under global halt, symbol halt and safe mode
C5_Witness ==
  /\ Called /\ ~KillSwitch /\ IsRecord(last.arg) /\ CloseOnlyOrder(last.arg)
  /\ globalHalt /\ safeMode /\ SymbolHalted(last.arg)
  /\ Decided(last.outcome, FALSE, "RATE_LIMIT")

(***************************************************************************)
(* C6.  As claimed: with a positive max_staleness_ms, a non-close-only     *)
(* order that no earlier rule decides is denied DATA_STALE exactly when    *)
(* the time since the gate's previous evaluation (lastSnapshotAt as it was *)
(* before the call) exceeds max_staleness_ms.                              *)
(***************************************************************************)
C6_StalenessSincePrevious ==
  [][ (/\ last'.op = "canExecute"
       /\ JsGT(MaxStale, Num(0))
       /\ IsRecord(last'.arg)
       /\ ~CloseOnlyOrder(last'.arg)
       /\ IsDecision(last'.outcome)
       /\ last'.outcome.reason_code \notin
            {"EMPTY_ORDER_PASS", "KILL_SWITCH", "KILL_SWITCH_CLOSE_ONLY",
             "GLOBAL_HALT", "SYMBOL_HALT", "RATE_LIMIT", "SAFE_MODE"})
      => (last'.outcome.reason_code = "DATA_STALE"
            <=> JsGT(Num(clock' - lastSnapshotAt), MaxStale)) ]_vars

(***************************************************************************)
(* C7.  As claimed: every updateConfig call changes the gate's version.    *)
(***************************************************************************)
C7_VersionChanges ==
  [][ last'.op = "updateConfig" => version' # version ]_vars

(***************************************************************************)
(* C8.  Every decision carries the gate's version, and the decisions made  *)
(* since the configuration was last replaced all carry the same            *)
(* policy_version, whatever halt and safe-mode switches came in between.   *)
(***************************************************************************)
C8_VersionStamped ==
  /\ (Called /\ IsDecision(last.outcome)) => last.outcome.policy_version = version
  /\ Cardinality(stamped) <= 1

\* a SAFE_MODE denial, in an epoch begun by an updateConfig later than construction
C8_Witness ==
  /\ Called /\ Decided(last.outcome, FALSE, "SAFE_MODE")
  /\ stamped = {version}
  /\ version # NewVersion(0)

(***************************************************************************)
(* C9.  Every canExecute call on an order record (an object, or no         *)
(* argument) returns a decision whose reason_code is one of the eleven     *)
(* codes; none ends in an exception.  (null is C10's missing order.)       *)
(***************************************************************************)
C9_OneReasonCode ==
  (Called /\ last.arg # Null)
    => IsDecision(last.outcome) /\ last.outcome.reason_code \in ReasonCodes

\* an order without any field, denied DATA_STALE
C9_Witness ==
  /\ Called /\ IsRecord(last.arg) /\ "symbol" \notin DOMAIN last.arg
  /\ Decided(last.outcome, FALSE, "DATA_STALE")

(***************************************************************************)
(* C10.  As claimed: canExecute with no argument, null or {} returns an    *)
(* allow decision in every gate state, and lastSnapshotAt is the instant   *)
(* the call began at.                                                      *)
(***************************************************************************)
C10_EmptyOrderAllowed ==
  (Called /\ last.arg \in {Undef, Null, Object})
    => /\ IsDecision(last.outcome)
       /\ last.outcome.allow
       /\ clock - lastSnapshotAt \in 0..MaxDrift

(***************************************************************************)
(* Vocabulary of the symbol-halt properties.                               *)
(***************************************************************************)
\* c and d are the same letter, letter case apart, or the same character
SameLetter(c, d) ==
  c = d \/ \E k \in 1..26 : {c, d} = {LowerCase[k], UpperCase[k]}

\* the strings a and b are equal up to letter case
SameLetters(a, b) ==
  Len(a) = Len(b) /\ \A i \in 1..Len(a) : SameLetter(a[i], b[i])

\* a string without a lower-case letter
IsUpperCase(a) == \A i \in 1..Len(a) : \A k \in 1..26 : a[i] # LowerCase[k]

\* a symbol: a string with a character that is not white space
IsSymbol(x) == x.t = "string" /\ \E i \in 1..Len(x.v) : x.v[i] # " "

\* missing, null, "" or white space only
IsBlank(x) ==
  x.t \in {"undefined", "null"} \/ (x.t = "string" /\ \A i \in 1..Len(x.v) : x.v[i] = " ")

\* the halted set `set` has a member equal to the string a up to letter case
HaltedIn(set, a) == \E i \in 1..Len(set) : SameLetters(set[i], a)

\* the symbols of the calls made
SymbolsUsed ==
  {x.v : x \in {y \in HaltSymbolArgs \cup {o.symbol : o \in HaltOrderArgs} : IsSymbol(y)}}

(***************************************************************************)
(* C11.  setSymbolHalt(s, true) for a symbol s puts s, letter case apart,  *)
(* in the halted set; it stays there until a setSymbolHalt(s2, false) with *)
(* s2 equal to s up to letter case; while it is there, with the kill       *)
(* switch and global halt off, every order that is not close-only and      *)
(* whose symbol equals s up to letter case is denied SYMBOL_HALT; and the  *)
(* halted set holds upper-case strings only.                               *)
(***************************************************************************)
C11_SymbolHaltCaseInsensitive ==
  [][ /\ (/\ last'.op = "setSymbolHalt"
          /\ IsSymbol(last'.arg.sym)
          /\ last'.arg.on = Bool(TRUE))
         => HaltedIn(symbolHalt', last'.arg.sym.v)
      /\ \A s \in SymbolsUsed :
           (/\ HaltedIn(symbolHalt, s)
            /\ ~(/\ last'.op = "setSymbolHalt"
                 /\ last'.arg.on = Bool(FALSE)
                 /\ last'.arg.sym.t = "string"
                 /\ SameLetters(last'.arg.sym.v, s)))
           => HaltedIn(symbolHalt', s)
      /\ (/\ last'.op = "canExecute"
          /\ ~KillSwitch /\ ~globalHalt
          /\ IsRecord(last'.arg)
          /\ ~CloseOnlyOrder(last'.arg)
          /\ "symbol" \in DOMAIN last'.arg
          /\ IsSymbol(last'.arg.symbol)
          /\ HaltedIn(symbolHalt, last'.arg.symbol.v))
         => Decided(last'.outcome, FALSE, "SYMBOL_HALT")
      /\ \A i \in 1..Len(symbolHalt') : IsUpperCase(symbolHalt'[i]) ]_vars

\* an order for "Btc" denied SYMBOL_HALT by the halted "BTC"
C11_Witness ==
  /\ Called /\ ~KillSwitch /\ ~globalHalt
  /\ last.arg.symbol = SymMixed
  /\ symbolHalt # <<>> /\ \A i \in 1..Len(symbolHalt) : symbolHalt[i] # SymMixed.v
  /\ Decided(last.outcome, FALSE, "SYMBOL_HALT")

(***************************************************************************)
(* C18.  As claimed: setSymbolHalt with a missing, null, empty or          *)
(* white-space-only symbol, on or off, changes neither the halted set nor  *)
(* any other field of the gate, and no order whose symbol is blank is      *)
(* denied SYMBOL_HALT.                                                     *)
(***************************************************************************)
C18_BlankSymbolNoOp ==
  [][ /\ (last'.op = "setSymbolHalt" /\ IsBlank(last'.arg.sym))
         => UNCHANGED <<symbolHalt, config, version, globalHalt, safeMode,
                        rateLimiter, lastSnapshotAt, startedAt>>
      /\ (/\ last'.op = "canExecute"
          /\ IsRecord(last'.arg)
          /\ "symbol" \in DOMAIN last'.arg
          /\ IsBlank(last'.arg.symbol))
         => ~Decided(last'.outcome, FALSE, "SYMBOL_HALT") ]_vars

(***************************************************************************)
(* C12.  As claimed: a limiter built from a ceiling that is zero or        *)
(* negative answers allow() as one built with the default ceiling does:    *)
(* true exactly for the first five calls of each wall-clock second.        *)
(***************************************************************************)
C12_NonPositiveCeilingIsDefault ==
  (last.op = "allow" /\ calls.ceiling.t = "number" /\ calls.ceiling.v <= 0)
    => /\ calls.sec = clock \div MsPerSec
       /\ (last.outcome = Bool(TRUE)) <=> (calls.n <= DefaultRate)

(***************************************************************************)
(* C13.  Whatever the order in which the callers' canExecute calls and the *)
(* administrative operations run, the evaluations that have passed the     *)
(* rate-limit check in one wall-clock second since the configuration was   *)
(* last replaced never number more than the ceiling, and the limiter's     *)
(* counter is that number (zero when its window is an earlier one).        *)
(***************************************************************************)
C13_LimiterAtomic ==
  /\ admitted.n <= rateLimiter.maxPerSec
  /\ rateLimiter.bucket = IF admitted.sec = rateLimiter.ts THEN admitted.n ELSE 0

\* in a later second of an epoch begun by updateConfig: the ceiling is reached
\* and the next evaluation is refused
C13_Witness ==
  /\ Called /\ Decided(last.outcome, FALSE, "RATE_LIMIT")
  /\ version # NewVersion(0)
  /\ admitted.sec = clock \div MsPerSec /\ admitted.sec >= 1
  /\ admitted.n = rateLimiter.maxPerSec
  /\ rateLimiter.bucket = admitted.n

(***************************************************************************)
(* Vocabulary of the configuration properties.                             *)
(***************************************************************************)
\* cfg has a limits.rate_per_sec
HasRate(cfg) == "limits" \in DOMAIN cfg /\ "rate_per_sec" \in DOMAIN cfg.limits

\* the ceiling configuration cfg asks for: limits.rate_per_sec as a number, 5
\* when it is absent or zero
CeilingOf(cfg) ==
  IF HasRate(cfg) /\ ToNumber(cfg.limits.rate_per_sec) \notin {NaN, Num(0)}
  THEN ToNumber(cfg.limits.rate_per_sec).v
  ELSE 5

\* cfg has the kill switch on
KillSwitchOn(cfg) == "kill_switch" \in DOMAIN cfg /\ cfg.kill_switch = Bool(TRUE)

(***************************************************************************)
(* C14.  The configuration, the version and the limiter's ceiling change   *)
(* together, in updateConfig steps only; and every evaluation, wherever it *)
(* falls among the administrative operations, leaves the policy state as   *)
(* it found it and is decided by that one state: the version it stamps is  *)
(* the gate's, the limiter it consults has the ceiling of the gate's       *)
(* configuration, and a KILL_SWITCH, RATE_LIMIT, DATA_STALE or MAX_ORDER   *)
(* answer is one that this configuration calls for.                        *)
(***************************************************************************)
C14_SnapshotConsistent ==
  [][ /\ (config' # config \/ version' # version
            \/ rateLimiter'.maxPerSec # rateLimiter.maxPerSec)
         => last'.op = "updateConfig"
      /\ rateLimiter'.maxPerSec = CeilingOf(config')
      /\ (last'.op = "canExecute" /\ IsDecision(last'.outcome))
         => LET code == last'.outcome.reason_code
            IN /\ UNCHANGED <<config, version, symbolHalt, globalHalt, safeMode>>
               /\ last'.outcome.policy_version = version
               /\ code \in {"KILL_SWITCH", "KILL_SWITCH_CLOSE_ONLY"} => KillSwitchOn(config)
               /\ code \notin {"KILL_SWITCH", "KILL_SWITCH_CLOSE_ONLY", "EMPTY_ORDER_PASS"}
                    => ~KillSwitchOn(config)
               /\ code = "RATE_LIMIT"
                    => /\ Exhausted(rateLimiter, clock')
                       /\ rateLimiter.bucket >= CeilingOf(config)
               /\ code = "DATA_STALE" => JsGT(MaxStale, Num(0))
               /\ code = "MAX_ORDER" => OverCap(last'.arg) ]_vars

\* an order denied MAX_ORDER by the cap of a configuration put in place by
\* updateConfig, with that configuration's version and limiter
C14_Witness ==
  /\ Called /\ Decided(last.outcome, FALSE, "MAX_ORDER")
  /\ version # NewVersion(0)
  /\ last.outcome.policy_version = version
  /\ config = CfgScenario
  /\ rateLimiter.maxPerSec = 2

(***************************************************************************)
(* Vocabulary of the notional cap.                                         *)
(***************************************************************************)
\* limits.max_order_usdt of cfg as a number, 0 when it is absent
CapOf(cfg) ==
  IF "limits" \in DOMAIN cfg /\ "max_order_usdt" \in DOMAIN cfg.limits
  THEN ToNumber(cfg.limits.max_order_usdt) ELSE Num(0)

\* the notional of order o as a number: its notional, else its quote, else 0
AmountOf(o) ==
  IF "notional" \in DOMAIN o /\ o.notional # Num(0) THEN ToNumber(o.notional)
  ELSE IF "quote" \in DOMAIN o THEN ToNumber(o.quote)
  ELSE Num(0)

\* a positive cap, a positive numeric notional, and the notional above the cap
AboveCap(o, cfg) ==
  /\ CapOf(cfg).t = "number" /\ CapOf(cfg).v > 0
  /\ AmountOf(o).t = "number" /\ AmountOf(o).v > 0
  /\ AmountOf(o).v > CapOf(cfg).v

\* the reason codes of the rules that come before the notional cap
BeforeCap ==
  {"EMPTY_ORDER_PASS", "KILL_SWITCH", "KILL_SWITCH_CLOSE_ONLY", "GLOBAL_HALT",
   "SYMBOL_HALT", "RATE_LIMIT", "SAFE_MODE", "DATA_STALE"}

(***************************************************************************)
(* C15.  An order that is not close-only and that none of the rules before *)
(* the notional cap decides is denied MAX_ORDER when the cap is positive   *)
(* and its notional (notional, else quote) is a positive number strictly   *)
(* above the cap, and is allowed PASS otherwise: at the cap, with a zero,  *)
(* missing or non-numeric notional, or with a cap of 0.                    *)
(***************************************************************************)
C15_NotionalCap ==
  (/\ Called
   /\ IsRecord(last.arg)
   /\ ~CloseOnlyOrder(last.arg)
   /\ IsDecision(last.outcome)
   /\ last.outcome.reason_code \notin BeforeCap)
    => IF AboveCap(last.arg, config)
       THEN Decided(last.outcome, FALSE, "MAX_ORDER")
       ELSE Decided(last.outcome, TRUE, "PASS")

\* an order whose notional is the cap itself, allowed PASS
C15_Witness ==
  /\ Called /\ IsRecord(last.arg) /\ ~CloseOnlyOrder(last.arg)
  /\ CapOf(config).t = "number" /\ CapOf(config).v > 0
  /\ AmountOf(last.arg) = CapOf(config)
  /\ Decided(last.outcome, TRUE, "PASS")

(***************************************************************************)
(* C17.  As claimed: an updateConfig(cfg) step leaves the limiter with     *)
(* counter 0 and the ceiling cfg asks for (5 when it asks for none) and    *)
(* leaves the halts and safe mode as they were, and an order evaluated     *)
(* right after it, at the same instant, is not denied RATE_LIMIT.          *)
(***************************************************************************)
C17_ReplacementRebuildsLimiter ==
  [][ /\ last'.op = "updateConfig"
         => /\ rateLimiter'.bucket = 0
            /\ rateLimiter'.maxPerSec = CeilingOf(config')
            /\ UNCHANGED <<symbolHalt, globalHalt, safeMode>>
      /\ (/\ last.op = "updateConfig"
          /\ last'.op = "canExecute"
          /\ IsDecision(last'.outcome))
         => last'.outcome.reason_code # "RATE_LIMIT" ]_vars

(***************************************************************************)
(* C16.  Every canExecute call, whatever it returns or throws, leaves      *)
(* lastSnapshotAt at the instant the call was made at; lastSnapshotAt      *)
(* never decreases; and updateConfig, setGlobalHalt, setSymbolHalt,        *)
(* setSafeMode and policySnapshot leave it as it was.                      *)
(***************************************************************************)
C16_FreshnessTimestamp ==
  [][ /\ last'.op = "canExecute" => lastSnapshotAt' = clock
      /\ clock' >= clock => lastSnapshotAt' >= lastSnapshotAt
      /\ last'.op \in {"updateConfig", "setGlobalHalt", "setSymbolHalt",
                       "setSafeMode", "policySnapshot"}
           => lastSnapshotAt' = lastSnapshotAt ]_vars

\* a KILL_SWITCH denial in a later second: lastSnapshotAt has moved there
C16_Witness ==
  /\ Called /\ Decided(last.outcome, FALSE, "KILL_SWITCH")
  /\ lastSnapshotAt >= MsPerSec
  /\ clock - lastSnapshotAt \in 0..MaxDrift

(***************************************************************************)
(* C19.  An evaluation answered KILL_SWITCH, KILL_SWITCH_CLOSE_ONLY,       *)
(* GLOBAL_HALT or SYMBOL_HALT leaves the limiter as it was; an evaluation  *)
(* answered SAFE_MODE, DATA_STALE, MAX_ORDER, CLOSE_ONLY or PASS has been  *)
(* admitted by the limiter and leaves its counter one above what it was in *)
(* the current second (one, when the second is a new one).                 *)
(***************************************************************************)
C19_SlotConsumption ==
  [][ (last'.op = "canExecute" /\ IsDecision(last'.outcome))
      => LET code == last'.outcome.reason_code
             now == clock' \div MsPerSec
             before == IF rateLimiter.ts = now THEN rateLimiter.bucket ELSE 0
         IN /\ code \in {"KILL_SWITCH", "KILL_SWITCH_CLOSE_ONLY", "GLOBAL_HALT",
                          "SYMBOL_HALT"}
                 => rateLimiter' = rateLimiter
            /\ code \in {"SAFE_MODE", "DATA_STALE", "MAX_ORDER", "CLOSE_ONLY", "PASS"}
                 => /\ rateLimiter'.ts = now
                    /\ rateLimiter'.bucket = before + 1
                    /\ rateLimiter'.maxPerSec = rateLimiter.maxPerSec ]_vars

\* a SAFE_MODE denial that has taken the last slot of the second
C19_Witness ==
  /\ Called /\ Decided(last.outcome, FALSE, "SAFE_MODE")
  /\ rateLimiter.ts = clock \div MsPerSec
  /\ rateLimiter.bucket = rateLimiter.maxPerSec
  /\ rateLimiter.maxPerSec >= 2

(***************************************************************************)
(* Vocabulary of the request handlers.                                     *)
(***************************************************************************)
\* the size a request body gives: its quantity, else its size, else its quote
SizeGiven(b) ==
  IF b.t # "object" THEN Undef
  ELSE IF "quantity" \in DOMAIN b /\ b.quantity \notin {Undef, Null} THEN b.quantity
  ELSE IF "size" \in DOMAIN b /\ b.size \notin {Undef, Null} THEN b.size
  ELSE IF "quote" \in DOMAIN b THEN b.quote
  ELSE Undef

\* the body passes the handlers' field validation: a symbol, a side, and a
\* size that is not a number at or below zero
BodyValid(b) ==
  /\ b.t = "object"
  /\ "symbol" \in DOMAIN b /\ b.symbol.t = "string" /\ b.symbol.v # <<>>
  /\ "side" \in DOMAIN b /\ b.side.t = "string" /\ b.side.v # <<>>
  /\ SizeGiven(b) \notin {Undef, Null}
  /\ ~(ToNumber(SizeGiven(b)).t = "number" /\ ToNumber(SizeGiven(b)).v <= 0)

\* the request is a dry run: by its body or by the server's configuration
IsDryRun(b) ==
  \/ (b.t = "object" /\ "dryRun" \in DOMAIN b /\ b.dryRun = Bool(TRUE))
  \/ ("dry_run" \in DOMAIN config /\ config.dry_run = Bool(TRUE))

(***************************************************************************)
(* C20.  bitgetPrivateCall is issued for a request only when the gate has  *)
(* returned that request an allow decision, the request passed field       *)
(* validation and is not a dry run.  A request that fails validation is    *)
(* answered 400 without a gate decision and without an exchange call; a    *)
(* request whose decision is a deny is answered 400 with that decision as  *)
(* payload and without an exchange call; an answered request is never      *)
(* taken up again.                                                         *)
(***************************************************************************)
C20_ExchangeOnlyAfterAllow ==
  [][ \A r \in 1..MaxReq :
        /\ (requests'[r].called /\ ~requests[r].called)
             => /\ requests[r].pc = "decision"
                /\ IsDecision(requests[r].decision)
                /\ requests[r].decision.allow
                /\ BodyValid(requests[r].body)
                /\ ~IsDryRun(requests[r].body)
        /\ (requests[r].pc = "none" /\ requests'[r].pc = "decision")
             => /\ last'.op = "canExecute"
                /\ requests'[r].decision = last'.outcome
                /\ IsDecision(requests'[r].decision)
                /\ BodyValid(requests'[r].body)
        /\ (requests[r].pc = "none" /\ requests'[r].pc = "done")
             => /\ ~requests'[r].called
                /\ requests'[r].res.status = 400
                /\ rateLimiter' = rateLimiter
        /\ (/\ requests[r].pc = "decision"
            /\ ~requests[r].decision.allow
            /\ requests'[r] # requests[r])
             => /\ requests'[r].pc = "done"
                /\ ~requests'[r].called
                /\ requests'[r].res.status = 400
                /\ requests'[r].res.payload.decision = requests[r].decision
        /\ (requests[r].pc = "decision" /\ IsDryRun(requests[r].body))
             => ~requests'[r].called
        /\ requests[r].pc = "done" => requests'[r] = requests[r] ]_vars

\* one request waits for the exchange, having been allowed, while another has
\* been answered 400 with its RATE_LIMIT denial and never reached the exchange
C20_Witness ==
  \E r, q \in 1..MaxReq :
    /\ requests[r].pc = "exchange" /\ requests[r].called
    /\ requests[r].decision.allow
    /\ requests[q].pc = "done" /\ ~requests[q].called
    /\ requests[q].res.status = 400
    /\ "decision" \in DOMAIN requests[q].res.payload
    /\ requests[q].res.payload.decision.reason_code = "RATE_LIMIT"

=============================================================================
